---- MODULE Spec2Model ----
(***************************************************************************)
(* The create-accounts-status lambda handler                               *)
(* (constructs/lib/aws-organizations/create-accounts-status/index.ts).     *)
(*                                                                         *)
(* One invocation of handler() is a sequence of awaited calls; each        *)
(* awaited call, together with the synchronous code that follows it up to  *)
(* the next await, is one action.  The position of an invocation is pc[p]. *)
(* DynamoDB (the two tables) and AWS Organizations are the environment:    *)
(* what a call answers is chosen with \E from the answers the handler      *)
(* branches on: a call throws (the promise is rejected), or resolves with  *)
(* one of the states / status codes the code tests.                        *)
(*                                                                         *)
(* Assumptions about the environment:                                      *)
(*  - the tables are read as last written (no stale scan);                 *)
(*  - a write that throws or resolves with a status code other than 200    *)
(*    has not been applied;                                                *)
(*  - a creation request that is SUCCEEDED or FAILED stays so, and a       *)
(*    response carries a GovCloudAccountId exactly when the request was    *)
(*    made with createGovCloudAccount;                                     *)
(*  - nothing but the handler writes the tables once they are seeded.      *)
(*  - the mapping table is keyed by commericalAccountId, the request      *)
(*    table by accountEmail, and a row is stored under its own email.      *)
(* The fields description and organizationalUnit of AccountConfig, which   *)
(* the handler never reads, are left out of the rows.                      *)
(***************************************************************************)
EXTENDS Integers, Sequences, FiniteSets, TLC

VARIABLES
  store,               \* table NewOrgAccountsTableName: accountEmail -> accountConfig
  mapping,             \* table GovCloudAccountMappingTableName: its rows
  remote,              \* Organizations: CreateAccountRequestId -> creation request
  pc,                  \* per invocation slot: the await the invocation is at
  singleAccountToAdd,  \* per slot: the local of that name (the parsed row)
  status,              \* per slot: CreateAccountStatus of the last response
  rootOrg,             \* per slot: the local of that name in moveAccountToOrgIdFromRoot
  ret,                 \* per slot: how the last invocation ended
  log,                 \* per slot: the awaited calls of the invocation, with outcomes
  store0,              \* per slot: the request table when the invocation scanned it
  mapping0,            \* per slot: the mapping table when the invocation scanned it
  hist,                \* what has happened to a request id: <<"stored", rid>>, <<"polled", rid>>;
                       \* <<"failed", rid>>, <<"failed again", rid>>: a status check reported
                       \* FAILED, and did so in a later invocation too;
                       \* and <<"overlap", <<>>>>: an invocation started while another was running
  nInv                 \* invocations started so far

vars == <<store, mapping, remote, pc, singleAccountToAdd, status, rootOrg, ret,
          log, store0, mapping0, hist, nInv>>

(* ------------------------------ bounds -------------------------------- *)

\* Invocations of the handler in a run.
MaxInvocations == 5

\* Create calls Organizations answers in a run; a row that needs a Create is
\* not selected any more once the bound is reached.
MaxCreates == 2

Emails == {"a@x.com", "b@x.com"}

\* Invocation slots; serial runs use slot 1 only.
Procs == {1, 2}

(* --------------------------- configuration ---------------------------- *)

\* AccountConfig.name of the request enqueued under an email.
NameOf(email) == IF email = "a@x.com" THEN "A" ELSE "B"

\* AccountConfig.organizationalUnitId of the request enqueued under an email.
OuOf(email) == IF email = "a@x.com" THEN "ou-1" ELSE "ou-2"

\* An AccountConfig as the enqueue step stores it, not yet submitted: the
\* createRequestId is the empty string <<>>, or undefined and then absent from
\* the stored JSON (JSON.stringify drops it).
AccountConfig(email, gov) ==
  IF email = "a@x.com"
    THEN [name |-> NameOf(email), email |-> email, enableGovCloud |-> gov,
          organizationalUnitId |-> OuOf(email), createRequestId |-> <<>>]
    ELSE [name |-> NameOf(email), email |-> email, enableGovCloud |-> gov,
          organizationalUnitId |-> OuOf(email)]

\* The tables a run can start from: any set of keys, one row per key, none
\* submitted yet.
InitialStores ==
  UNION { [ks -> {"true", "false"}] : ks \in SUBSET Emails }

SeedStore(f) == [e \in DOMAIN f |-> AccountConfig(e, f[e])]

(* ------------------------- values and helpers ------------------------- *)

Undefined == "undefined"
NoAccount == [email |-> "none"]
NoStatus == [State |-> "none"]
NoRoot == "unresolved"
RootId == "r-root"

Rest == {"idle", "done"}

Returned(isComplete) == [kind |-> "returned", IsComplete |-> isComplete]
Threw(message, about) == [kind |-> "threw", message |-> message, email |-> about]
NotEnded == [kind |-> "none"]

Event(op, args, out) == [op |-> op, args |-> args, out |-> out]

\* Organizations' ids: the n-th creation request for an email, and what it makes.
RequestId(email, n) == <<email, n>>
AccountId(rid) == <<"account", rid[1], rid[2]>>
GovCloudAccountId(rid) == <<"gov", rid[1], rid[2]>>

\* A put that only inserts: it leaves the row of a key that exists as it is.
PutIfAbsent(f, k, v) == [x \in DOMAIN f \cup {k} |-> IF x \in DOMAIN f THEN f[x] ELSE v]

\* f with key k set to v: documentClient.put, an upsert by key.
Put(f, k, v) == [x \in DOMAIN f \cup {k} |-> IF x = k THEN v ELSE f[x]]

\* A delete that removes every row.
DeleteAll(f, k) == [x \in {} |-> f[x]]

\* A delete that removes nothing.
DeleteNothing(f, k) == f

\* f with key k removed: documentClient.delete by key.
Delete(f, k) == [x \in DOMAIN f \ {k} |-> f[x]]

\* The positions of the mapping table's rows for a commericalAccountId.
MappingRows(rows, key) == { i \in DOMAIN rows : rows[i].commericalAccountId = key }

\* A put that adds a row whatever the table holds.
PutItemAppend(rows, item) == Append(rows, item)

\* lines 264-272: documentClient.put of an Item into the mapping table, whose
\* key is commericalAccountId: the row of that key is replaced, or added.
PutItem(rows, item) ==
  IF MappingRows(rows, item.commericalAccountId) = {}
    THEN Append(rows, item)
    ELSE [i \in DOMAIN rows |->
            IF rows[i].commericalAccountId = item.commericalAccountId THEN item ELSE rows[i]]

HasRequestId(row) == "createRequestId" \in DOMAIN row /\ row.createRequestId # <<>>

\* A handler that does not look at the createRequestId.
NeedsCreateAlways(row) == TRUE

\* line 65: the createRequestId is empty or undefined, the account must be created
NeedsCreate(row) ==
  \/ "createRequestId" \notin DOMAIN row
  \/ row.createRequestId = <<>>

\* the createRequestId the handler reads from a row (undefined when absent)
RequestIdOf(row) ==
  IF "createRequestId" \in DOMAIN row THEN row.createRequestId ELSE <<Undefined>>

\* A handler that does not assign the createRequestId before the put.
WithRequestIdForgotten(row, rid) == row

\* the row with createRequestId assigned (line 74)
WithRequestId(row, rid) ==
  [name |-> row.name, email |-> row.email, enableGovCloud |-> row.enableGovCloud,
   organizationalUnitId |-> row.organizationalUnitId, createRequestId |-> rid]

\* CreateAccountStatus of a response for creation request rid in state st.
CreateAccountStatus(rid, st, name, gov) ==
  IF st = "SUCCEEDED" /\ gov
    THEN [State |-> st, Id |-> rid, AccountId |-> AccountId(rid), AccountName |-> name,
          GovCloudAccountId |-> GovCloudAccountId(rid)]
    ELSE IF st = "SUCCEEDED"
      THEN [State |-> st, Id |-> rid, AccountId |-> AccountId(rid), AccountName |-> name]
      ELSE [State |-> st, Id |-> rid]

\* The Create calls Organizations has answered for an email, of either variant.
CreateCount(email) == Cardinality({ rid \in DOMAIN remote : rid[1] = email })

\* All the Create calls Organizations has answered.
TotalCreates == Cardinality(DOMAIN remote)

Logged(p, ev) == [log EXCEPT ![p] = Append(@, ev)]

\* The invocation in slot p ends with r.
End(p, r) ==
  /\ pc' = [pc EXCEPT ![p] = "done"]
  /\ ret' = [ret EXCEPT ![p] = r]

Goto(p, label) ==
  /\ pc' = [pc EXCEPT ![p] = label]
  /\ UNCHANGED ret

Init ==
  /\ store \in { SeedStore(f) : f \in InitialStores }
  /\ mapping = <<>>
  /\ remote = <<>>
  /\ pc = [p \in Procs |-> "idle"]
  /\ singleAccountToAdd = [p \in Procs |-> NoAccount]
  /\ status = [p \in Procs |-> NoStatus]
  /\ rootOrg = [p \in Procs |-> NoRoot]
  /\ ret = [p \in Procs |-> NotEnded]
  /\ log = [p \in Procs |-> <<>>]
  /\ store0 = [p \in Procs |-> store]
  /\ mapping0 = [p \in Procs |-> mapping]
  /\ hist = {}
  /\ nInv = 0

(* ------------------------- the environment ---------------------------- *)

\* What Organizations may report for a creation request.
States == {"IN_PROGRESS", "SUCCEEDED", "FAILED"}

\* The HTTP status of a resolved SDK response, as the handler tests it
\* (statusCode === 200 or not).
StatusCodes == {200, 500}

\* The error of a rejected SDK promise (throttlingBackOff gave up or passed the
\* error on); it does not name the request.
SdkError == Threw("sdk error", Undefined)

\* A handler that catches the error of a rejected call and carries on to its
\* final return.
RejectedAbsorbed(p) == Returned(FALSE)

\* lines 44-142: no await of the handler and of its helpers is inside a try:
\* the error of a rejected call ends the invocation in slot p, as it is
Rejected(p) == SdkError

\* What describeCreateAccountStatus may answer for request rid: a request that
\* is in progress may have moved on, a finished one stays as it is.
StatusAnswers(rid) ==
  IF rid \notin DOMAIN remote
    THEN {}
    ELSE IF remote[rid].State = "IN_PROGRESS" THEN States ELSE {remote[rid].State}

\* A root of the organization as listRoots reports it.
Root(name, id) == [Name |-> name, Id |-> id]

\* What listRoots may answer: no root, roots of other names, the root named
\* 'Root', behind another root or alone.
RootLists ==
  { <<>>,
    << Root("Other", "r-other") >>,
    << Root("Root", RootId) >>,
    << Root("Other", "r-other"), Root("Root", RootId) >> }

\* A handler that takes the first root listed, whatever its name.
FindRootFirst(roots) == IF roots = <<>> THEN Undefined ELSE roots[1].Id

\* lines 238 and 244: roots.Roots?.find(item => item.Name === 'Root'), and its
\* Id; undefined when no root has that name
FindRoot(roots) ==
  LET hits == { i \in DOMAIN roots : roots[i].Name = "Root" }
  IN IF hits = {}
       THEN Undefined
       ELSE roots[CHOOSE i \in hits : \A j \in hits : i <= j].Id

\* Where Organizations keeps the account of a request that is in state st.
ParentAt(st) == IF st = "SUCCEEDED" THEN RootId ELSE "none"

(* --------------------------- the handler ------------------------------ *)

\* A handler that asks for the status of every row it selects.
AfterSelectDescribe(row) == "describe"

\* lines 61-70 and 108-110: where the handler goes with the row it selected
AfterSelect(row) == IF NeedsCreate(row) THEN "create" ELSE "describe"

\* A handler that deletes the row as soon as creation has succeeded.
AfterSucceededDeleteFirst(st) == "deleteSingleAccountConfigFromTable"

\* A handler that never saves the mapping.
AfterSucceededNoMapping(st) == "listRoots"

\* lines 84 and 119: a success response with a GovCloudAccountId saves the
\* mapping first, one without goes straight to the move
AfterSucceeded(st) ==
  IF "GovCloudAccountId" \in DOMAIN st THEN "saveGovCloudAccountMapping" ELSE "listRoots"

\* A handler whose default case breaks out of the switch instead of throwing.
CouldNotCreateSwallowed(email) == Returned(FALSE)

\* lines 103-106 and 133-136: any other state is an error naming the account
CouldNotCreate(email) == Threw("Could not create account", email)

\* A handler that tests the enableGovCloud flag the wrong way round.
CreateOpInverted(row) ==
  IF row.enableGovCloud = "true" THEN "createAccount" ELSE "createGovCloudAccount"

\* lines 66-70: the variant of Create the handler calls for a row
CreateOp(row) ==
  IF row.enableGovCloud = "true" THEN "createGovCloudAccount" ELSE "createAccount"

\* An invocation starts in slot p while the invocation of another slot is
\* between two of its awaited calls.
Overlap == <<"overlap", <<>>>>
Overlapping(p) == \E q \in Procs \ {p} : pc[q] \notin Rest

\* lines 53-59, 144-160: scan one row; none left means IsComplete: true.
getSingleAccountConfigFromTable(p) ==
  /\ pc[p] \in Rest
  /\ nInv < MaxInvocations
  /\ nInv' = nInv + 1
  /\ store0' = [store0 EXCEPT ![p] = store]
  /\ mapping0' = [mapping0 EXCEPT ![p] = mapping]
  /\ status' = [status EXCEPT ![p] = NoStatus]
  /\ rootOrg' = [rootOrg EXCEPT ![p] = NoRoot]
  /\ hist' = IF Overlapping(p) THEN hist \cup {Overlap} ELSE hist
  /\ UNCHANGED <<store, mapping, remote>>
  /\ \/ /\ log' = [log EXCEPT ![p] = <<Event("scan", <<>>, "throw")>>]
        /\ singleAccountToAdd' = [singleAccountToAdd EXCEPT ![p] = NoAccount]
        /\ End(p, Rejected(p))
     \/ /\ DOMAIN store = {}
        /\ log' = [log EXCEPT ![p] = <<Event("scan", <<>>, "empty")>>]
        /\ singleAccountToAdd' = [singleAccountToAdd EXCEPT ![p] = NoAccount]
        /\ End(p, Returned(TRUE))
     \/ \E e \in DOMAIN store :
          /\ NeedsCreate(store[e]) => TotalCreates < MaxCreates
          /\ log' = [log EXCEPT ![p] = <<Event("scan", <<e>>, "item")>>]
          /\ singleAccountToAdd' = [singleAccountToAdd EXCEPT ![p] = store[e]]
          /\ Goto(p, AfterSelect(store[e]))

\* lines 65-107, 178-208: Create, and the switch on the state it reports.
createOrganizationAccount(p) ==
  LET row == singleAccountToAdd[p]
      e == row.email
      rid == RequestId(e, CreateCount(e) + 1)
      op == CreateOp(row)
  IN
  /\ pc[p] = "create"
  /\ UNCHANGED <<store, mapping, rootOrg, store0, mapping0, hist, nInv>>
  /\ \/ /\ log' = Logged(p, Event(op, <<e, row.name>>, "throw"))
        /\ End(p, Rejected(p))
        /\ UNCHANGED <<remote, singleAccountToAdd, status>>
     \/ \E st \in States :
          /\ log' = Logged(p, Event(op, <<e, row.name>>, st))
          /\ remote' = Put(remote, rid,
                           [email |-> e, name |-> row.name, State |-> st,
                            gov |-> (op = "createGovCloudAccount"),
                            parent |-> ParentAt(st)])
          /\ status' = [status EXCEPT
                          ![p] = CreateAccountStatus(rid, st, row.name, remote'[rid].gov)]
          /\ \/ /\ st = "IN_PROGRESS"
                /\ singleAccountToAdd' =
                     [singleAccountToAdd EXCEPT ![p] = WithRequestId(row, rid)]
                /\ Goto(p, "updateAccountConfig")
             \/ /\ st = "SUCCEEDED"
                /\ UNCHANGED singleAccountToAdd
                /\ Goto(p, AfterSucceeded(status'[p]))
             \/ /\ st \notin {"IN_PROGRESS", "SUCCEEDED"}
                /\ UNCHANGED singleAccountToAdd
                /\ End(p, CouldNotCreate(e))

\* A put that stores the row under its name.
ItemKeyByName(accountConfig) == accountConfig.name

\* line 223: the key of the item updateAccountConfig puts,
\* accountEmail: accountConfig.email
ItemKey(accountConfig) == accountConfig.email

\* A handler that does not look at the result of updateAccountConfig.
AfterUpdateUnchecked(code) == Returned(FALSE)

\* lines 76-82: updateAccountConfig returned false (a status code other than
\* 200): throw; returned true: IsComplete: false
AfterUpdate(code) ==
  IF code = 200
    THEN Returned(FALSE)
    ELSE Threw("Unable to update DynamoDB account record with request id", Undefined)

\* lines 75-82, 219-234: put the row with its createRequestId.
updateAccountConfig(p) ==
  LET row == singleAccountToAdd[p]
  IN
  /\ pc[p] = "updateAccountConfig"
  /\ UNCHANGED <<mapping, remote, singleAccountToAdd, status, rootOrg, store0, mapping0, nInv>>
  /\ \/ /\ log' = Logged(p, Event("putRequest", <<row.email, RequestIdOf(row)>>, "throw"))
        /\ End(p, Rejected(p))
        /\ UNCHANGED <<store, hist>>
     \/ \E code \in StatusCodes :
          /\ log' = Logged(p, Event("putRequest", <<row.email, RequestIdOf(row)>>,
                                    IF code = 200 THEN "ok" ELSE "failed"))
          /\ IF code = 200
               THEN /\ store' = Put(store, ItemKey(row), row)
                    /\ hist' = hist \cup {<<"stored", RequestIdOf(row)>>}
               ELSE UNCHANGED <<store, hist>>
          /\ End(p, AfterUpdate(code))

\* A handler that throws while the account is still being created.
StillBeingCreatedThrows(st) == Threw("Account is still being created", Undefined)

\* lines 112-116: the status check reports IN_PROGRESS: IsComplete: false
StillBeingCreated(st) == Returned(FALSE)

\* lines 108-137, 210-217: Describe-Status for the stored request id, and the
\* switch on the state it reports.
getAccountCreationStatus(p) ==
  LET row == singleAccountToAdd[p]
      e == row.email
      rid == RequestIdOf(row)
  IN
  /\ pc[p] = "describe"
  /\ UNCHANGED <<store, mapping, singleAccountToAdd, rootOrg, store0, mapping0, nInv>>
  /\ \/ /\ log' = Logged(p, Event("describeCreateAccountStatus", <<rid>>, "throw"))
        /\ End(p, Rejected(p))
        /\ UNCHANGED <<remote, status, hist>>
     \/ \E st \in StatusAnswers(rid) :
          /\ log' = Logged(p, Event("describeCreateAccountStatus", <<rid>>, st))
          /\ remote' = IF remote[rid].State = st
                          THEN remote
                          ELSE [remote EXCEPT ![rid].State = st, ![rid].parent = ParentAt(st)]
          /\ hist' = CASE st = "IN_PROGRESS" -> hist \cup {<<"polled", rid>>}
                        [] st = "FAILED" /\ <<"failed", rid>> \notin hist ->
                             hist \cup {<<"failed", rid>>}
                        [] st = "FAILED" /\ <<"failed", rid>> \in hist ->
                             hist \cup {<<"failed again", rid>>}
                        [] OTHER -> hist
          /\ status' = [status EXCEPT
                          ![p] = CreateAccountStatus(rid, st, remote[rid].name, remote[rid].gov)]
          /\ \/ /\ st = "IN_PROGRESS"
                /\ End(p, StillBeingCreated(status'[p]))
             \/ /\ st = "SUCCEEDED"
                /\ Goto(p, AfterSucceeded(status'[p]))
             \/ /\ st \notin {"IN_PROGRESS", "SUCCEEDED"}
                /\ End(p, CouldNotCreate(e))

\* lines 88-93 and 121-126: the result of saveGovCloudAccountMapping is not
\* looked at; the handler goes on to the move
AfterSaveMapping(code) == "listRoots"

\* lines 97-101 and 127-131: the result of moveAccountToOrgIdFromRoot is not
\* looked at; the handler goes on to delete the row
AfterMove(code) == "deleteSingleAccountConfigFromTable"

\* A handler that reports completion once it has deleted a row.
AfterDeleteComplete(code) == Returned(TRUE)

\* lines 101-102, 131-132 and 139-141: the result of
\* deleteSingleAccountConfigFromTable is not looked at; break, IsComplete: false
AfterDelete(code) == Returned(FALSE)

\* lines 259-279: put the mapping row of a created GovCloud account.
saveGovCloudAccountMapping(p) ==
  LET st == status[p]
      item == [commericalAccountId |-> st.AccountId,
               govCloudAccountId |-> st.GovCloudAccountId,
               accountName |-> st.AccountName]
  IN
  /\ pc[p] = "saveGovCloudAccountMapping"
  /\ UNCHANGED <<store, remote, singleAccountToAdd, status, rootOrg, store0, mapping0,
                 hist, nInv>>
  /\ \/ /\ log' = Logged(p, Event("putMapping", <<item>>, "throw"))
        /\ End(p, Rejected(p))
        /\ UNCHANGED mapping
     \/ \E code \in StatusCodes :
          /\ log' = Logged(p, Event("putMapping", <<item>>,
                                    IF code = 200 THEN "ok" ELSE "failed"))
          /\ mapping' = IF code = 200 THEN PutItem(mapping, item) ELSE mapping
          /\ Goto(p, AfterSaveMapping(code))

\* A handler that gives up the placement quietly when no root is found.
NoDefaultRootSwallowed(roots) == Returned(FALSE)

\* line 244: rootOrg is undefined, rootOrg!.Id throws a TypeError while the
\* parameters of moveAccount are built
NoDefaultRoot(roots) == Threw("TypeError", Undefined)

\* lines 237-238 (and 244): list the roots and find the one named 'Root';
\* without it rootOrg!.Id throws before moveAccount is called.
listRoots(p) ==
  /\ pc[p] = "listRoots"
  /\ UNCHANGED <<store, mapping, remote, singleAccountToAdd, status, store0, mapping0,
                 hist, nInv>>
  /\ \/ /\ log' = Logged(p, Event("listRoots", <<>>, "throw"))
        /\ End(p, Rejected(p))
        /\ UNCHANGED rootOrg
     \/ \E roots \in RootLists :
          /\ rootOrg' = [rootOrg EXCEPT ![p] = FindRoot(roots)]
          /\ IF rootOrg'[p] = Undefined
               THEN /\ log' = Logged(p, Event("listRoots", <<>>, "no Root"))
                    /\ End(p, NoDefaultRoot(roots))
               ELSE /\ log' = Logged(p, Event("listRoots", <<>>, "Root"))
                    /\ Goto(p, "moveAccount")

\* lines 239-257: move the account from the root to the organizational unit.
moveAccountToOrgIdFromRoot(p) ==
  LET row == singleAccountToAdd[p]
      rid == status[p].Id
      call == <<status[p].AccountId, rootOrg[p], row.organizationalUnitId>>
  IN
  /\ pc[p] = "moveAccount"
  /\ UNCHANGED <<store, mapping, singleAccountToAdd, status, rootOrg, store0, mapping0,
                 hist, nInv>>
  /\ \/ /\ log' = Logged(p, Event("moveAccount", call, "throw"))
        /\ End(p, Rejected(p))
        /\ UNCHANGED remote
     \/ \E code \in StatusCodes :
          /\ log' = Logged(p, Event("moveAccount", call,
                                    IF code = 200 THEN "ok" ELSE "failed"))
          /\ remote' = IF code = 200
                          THEN [remote EXCEPT ![rid].parent = call[3]]
                          ELSE remote
          /\ Goto(p, AfterMove(code))

\* lines 162-176: delete the row of the account.
deleteSingleAccountConfigFromTable(p) ==
  LET e == singleAccountToAdd[p].email
  IN
  /\ pc[p] = "deleteSingleAccountConfigFromTable"
  /\ UNCHANGED <<mapping, remote, singleAccountToAdd, status, rootOrg, store0, mapping0,
                 hist, nInv>>
  /\ \/ /\ log' = Logged(p, Event("deleteRequest", <<e>>, "throw"))
        /\ End(p, Rejected(p))
        /\ UNCHANGED store
     \/ \E code \in StatusCodes :
          /\ log' = Logged(p, Event("deleteRequest", <<e>>,
                                    IF code = 200 THEN "ok" ELSE "failed"))
          /\ store' = IF code = 200 THEN Delete(store, e) ELSE store
          /\ End(p, AfterDelete(code))

\* One step of an invocation of handler (lines 44-142) in slot p.
handler(p) ==
  \/ getSingleAccountConfigFromTable(p)
  \/ createOrganizationAccount(p)
  \/ updateAccountConfig(p)
  \/ getAccountCreationStatus(p)
  \/ saveGovCloudAccountMapping(p)
  \/ listRoots(p)
  \/ moveAccountToOrgIdFromRoot(p)
  \/ deleteSingleAccountConfigFromTable(p)

(* ------------------------ reading the call log ------------------------ *)

CreateOps == {"createAccount", "createGovCloudAccount"}
StatusOps == CreateOps \cup {"describeCreateAccountStatus"}
RemoteOps == StatusOps \cup {"listRoots", "moveAccount"}
WriteOps == {"putRequest", "putMapping", "deleteRequest"}

\* The positions of invocation p's log that hold a call of ops answered outs.
Calls(p, ops, outs) ==
  { i \in 1..Len(log[p]) : log[p][i].op \in ops /\ log[p][i].out \in outs }

Called(p, ops) == { i \in 1..Len(log[p]) : log[p][i].op \in ops }

\* Invocation p's scan returned the row of email e.
Selected(p, e) ==
  /\ Len(log[p]) >= 1
  /\ log[p][1].out = "item"
  /\ log[p][1].args[1] = e

Ended(p) == pc[p] = "done"

(* ------------------------- specifications ----------------------------- *)

\* The scheduler's contract: advance() is invoked serially, again and again.
Next == handler(1)

Spec == Init /\ [][Next]_vars

LastEvent(p) == log[p][Len(log[p])]

\* The environment of the eventual-emptiness property: every Create is accepted
\* as IN_PROGRESS, the first status check reports SUCCEEDED, the default root
\* exists, and every store write and move succeeds.
HappyAnswer(ev) ==
  CASE ev.op \in CreateOps -> ev.out = "IN_PROGRESS"
    [] ev.op = "describeCreateAccountStatus" -> ev.out = "SUCCEEDED"
    [] ev.op = "scan" -> ev.out \in {"item", "empty"}
    [] ev.op = "listRoots" -> ev.out = "Root"
    [] OTHER -> ev.out = "ok"

NextHappy ==
  \/ getSingleAccountConfigFromTable(1) /\ HappyAnswer(LastEvent(1)')
  \/ createOrganizationAccount(1) /\ HappyAnswer(LastEvent(1)')
  \/ updateAccountConfig(1) /\ HappyAnswer(LastEvent(1)')
  \/ getAccountCreationStatus(1) /\ HappyAnswer(LastEvent(1)')
  \/ saveGovCloudAccountMapping(1) /\ HappyAnswer(LastEvent(1)')
  \/ listRoots(1) /\ HappyAnswer(LastEvent(1)')
  \/ moveAccountToOrgIdFromRoot(1) /\ HappyAnswer(LastEvent(1)')
  \/ deleteSingleAccountConfigFromTable(1) /\ HappyAnswer(LastEvent(1)')

\* The scheduler keeps invoking advance() (until the invocation bound).
SpecHappy == Init /\ [][NextHappy]_vars /\ WF_vars(NextHappy)

\* An environment in which no call fails: nothing throws, no write or move is
\* refused, no creation is rejected and the default root exists.
NoFailure(ev) == ev.out \notin {"throw", "failed", "FAILED", "no Root"}

\* The invocation in slot p is aborted where it stands, between two awaits.
Crash(p) ==
  /\ pc[p] \notin Rest
  /\ End(p, [kind |-> "crashed"])
  /\ UNCHANGED <<store, mapping, remote, singleAccountToAdd, status, rootOrg, log,
                 store0, mapping0, hist, nInv>>

NextCrash ==
  \/ getSingleAccountConfigFromTable(1) /\ NoFailure(LastEvent(1)')
  \/ createOrganizationAccount(1) /\ NoFailure(LastEvent(1)')
  \/ updateAccountConfig(1) /\ NoFailure(LastEvent(1)')
  \/ getAccountCreationStatus(1) /\ NoFailure(LastEvent(1)')
  \/ saveGovCloudAccountMapping(1) /\ NoFailure(LastEvent(1)')
  \/ listRoots(1) /\ NoFailure(LastEvent(1)')
  \/ moveAccountToOrgIdFromRoot(1) /\ NoFailure(LastEvent(1)')
  \/ deleteSingleAccountConfigFromTable(1) /\ NoFailure(LastEvent(1)')
  \/ Crash(1)

\* Serial invocations whose calls all succeed, any of which may crash.
SpecCrash == Init /\ [][NextCrash]_vars

\* Invocations that overlap: the at-most-one-concurrent-invocation assumption
\* of the scheduler does not hold; no call fails.
NextOverlap ==
  \/ handler(1) /\ NoFailure(LastEvent(1)')
  \/ handler(2) /\ NoFailure(LastEvent(2)')

SpecOverlap == Init /\ [][NextOverlap]_vars

(* ------------------------------ claims -------------------------------- *)

\* The emails whose stored row has carried a createRequestId.
Submitted == { rid[1] : rid \in { h[2] : h \in { x \in hist : x[1] = "stored" } } }

\* C1: once the stored row of an email carries a createRequestId, no step of
\* any later invocation calls Create (either variant) for that email: the
\* number of Create calls answered for it stays what it is, whether the row is
\* still stored or has been deleted since.
C1_AtMostOnceSubmission ==
  [][\A e \in Submitted : CreateCount(e)' = CreateCount(e)]_vars

\* C1 witness: an invocation that selected a row already carrying a
\* createRequestId has run to its end.
C1_Witness ==
  \E e \in Submitted :
    /\ Ended(1)
    /\ Selected(1, e)
    /\ HasRequestId(store0[1][e])
    /\ Calls(1, {"describeCreateAccountStatus"}, States) # {}

\* The Create calls for an email that Organizations accepted (answered
\* IN_PROGRESS or SUCCEEDED) and that no stored row refers to.
AcceptedUnstored(e) ==
  { rid \in DOMAIN remote :
      /\ rid[1] = e
      /\ <<"stored", rid>> \notin hist
      /\ remote[rid].State # "FAILED" }

\* C2 (as claimed): between invocations, also after an invocation that failed,
\* a stored row without a createRequestId has never been submitted (no Create
\* call was accepted for its email) and a stored row with one has had Create
\* called exactly once.
C2_SubmissionInvariant ==
  (pc[1] \in Rest) =>
    \A e \in DOMAIN store :
      /\ NeedsCreate(store[e]) => AcceptedUnstored(e) = {}
      /\ HasRequestId(store[e]) => CreateCount(e) = 1

\* C3 (as claimed): the row is deleted only in an invocation whose move call
\* reported success, and an invocation whose move call reported a non-success
\* status ends with an error and leaves the row in the table.
C3_DeletionOnlyAfterPlacement ==
  \A p \in Procs :
    /\ Calls(p, {"deleteRequest"}, {"ok"}) # {}
         => Calls(p, {"moveAccount"}, {"ok"}) # {}
    /\ (Ended(p) /\ Calls(p, {"moveAccount"}, {"failed"}) # {})
         => /\ ret[p].kind = "threw"
            /\ \E e \in DOMAIN store : Selected(p, e)

\* C4: an invocation in which Create or Describe-Status reported a state other
\* than IN_PROGRESS and SUCCEEDED has ended there with an error; it made no
\* store write and no move call, both tables are as the invocation found them
\* and the row it selected is still stored.
C4_FatalOnRejection ==
  \A p \in Procs :
    Calls(p, StatusOps, States \ {"IN_PROGRESS", "SUCCEEDED"}) # {}
      => /\ Ended(p)
         /\ ret[p].kind = "threw"
         /\ Called(p, WriteOps \cup {"moveAccount", "listRoots"}) = {}
         /\ store = store0[p]
         /\ mapping = mapping0[p]
         /\ \E e \in DOMAIN store : Selected(p, e)

\* C4 witness: an invocation has ended on a Create call that reported FAILED.
C4_Witness ==
  /\ Ended(1)
  /\ Calls(1, CreateOps, {"FAILED"}) # {}
  /\ ret[1].kind = "threw"

\* The emails the table was seeded with: those still stored and those a Create
\* call has been answered for (advance() adds no key to the table).
Seeded == DOMAIN store \cup { rid[1] : rid \in DOMAIN remote }

Complete(p) == Ended(p) /\ ret[p] = Returned(TRUE)

\* C5: with N requests seeded, every Create accepted as IN_PROGRESS, the first
\* status check reporting SUCCEEDED and every write and move succeeding,
\* repeated invocations reach one that returns IsComplete: true; the
\* invocation that does so first is invocation 2N+1 at the latest (no
\* invocation numbered 2N+1 or more ends otherwise), the table is empty then,
\* and an empty table stays empty.
C5_EventualEmptiness ==
  /\ <>Complete(1)
  /\ []((Ended(1) /\ nInv >= 2 * Cardinality(Seeded) + 1) => Complete(1))
  /\ [](Complete(1) => DOMAIN store = {})
  /\ [][DOMAIN store = {} => DOMAIN store' = {}]_vars

\* C5 witness: two seeded requests have both been created, placed and deleted,
\* and invocation 5 has returned IsComplete: true.
C5_Witness ==
  /\ Complete(1)
  /\ nInv = 5
  /\ { rid[1] : rid \in DOMAIN remote } = Emails
  /\ \A rid \in DOMAIN remote : remote[rid].parent = OuOf(rid[1])
  /\ DOMAIN store = {}

\* C6 (as claimed): an invocation whose Create or status check reports
\* IN_PROGRESS makes no move call and deletes nothing, and an account whose
\* creation is in progress is placed nowhere; for a request whose earlier
\* status check reported IN_PROGRESS, the invocation whose check reports
\* SUCCEEDED makes its move call after that check and deletes the row only
\* after a move call that succeeded.
C6_RetryThenPlacement ==
  /\ \A rid \in DOMAIN remote : remote[rid].State = "IN_PROGRESS" => remote[rid].parent = "none"
  /\ \A p \in Procs :
       /\ Calls(p, StatusOps, {"IN_PROGRESS"}) # {}
            => Called(p, {"moveAccount", "deleteRequest"}) = {}
       /\ \A i \in Calls(p, {"describeCreateAccountStatus"}, {"SUCCEEDED"}) :
            <<"polled", log[p][i].args[1]>> \in hist =>
              /\ \A j \in Called(p, {"moveAccount"}) : j > i
              /\ \A k \in Calls(p, {"deleteRequest"}, {"ok"}) :
                   \E j \in Calls(p, {"moveAccount"}, {"ok"}) : j < k

\* The scenario of C7: the table seeded with the one standard-variant request
\* for a@x.com and target ou-1; req-1 and account 111 are the request id and
\* the account id of the first Create call for that email.
ScenarioRow == AccountConfig("a@x.com", "false")
Req1 == RequestId("a@x.com", 1)
ScenarioStore == [e \in {"a@x.com"} |-> ScenarioRow]
ScenarioStoreSubmitted == [e \in {"a@x.com"} |-> WithRequestId(ScenarioRow, Req1)]

\* C7: the three calls of the scenario.  Call 1, on the seeded table, with
\* Create answering IN_PROGRESS with req-1 and the put succeeding, leaves the
\* row stored with createRequestId req-1 and returns IsComplete: false.  Call
\* 2, on that table, with the status of req-1 SUCCEEDED, no GovCloud id and no
\* call failing, makes exactly the calls describe, list-roots, move of account
\* 111 from the root to ou-1 and delete, writes no mapping row, leaves the
\* table empty and returns IsComplete: false.  Call 3, on the empty table,
\* returns IsComplete: true.
C7_ThreeCallScenario ==
  /\ ( /\ Ended(1)
       /\ store0[1] = ScenarioStore
       /\ Calls(1, CreateOps, {"IN_PROGRESS"}) # {}
       /\ status[1].Id = Req1
       /\ Calls(1, {"putRequest"}, {"ok"}) # {} )
     => /\ store = ScenarioStoreSubmitted
        /\ ret[1] = Returned(FALSE)
        /\ Called(1, {"createGovCloudAccount", "moveAccount", "deleteRequest"}) = {}
  /\ ( /\ Ended(1)
       /\ store0[1] = ScenarioStoreSubmitted
       /\ Calls(1, {"describeCreateAccountStatus"}, {"SUCCEEDED"}) # {}
       /\ Calls(1, RemoteOps \cup WriteOps, {"throw", "failed", "no Root"}) = {} )
     => /\ log[1] = << Event("scan", <<"a@x.com">>, "item"),
                       Event("describeCreateAccountStatus", <<Req1>>, "SUCCEEDED"),
                       Event("listRoots", <<>>, "Root"),
                       Event("moveAccount", <<AccountId(Req1), RootId, "ou-1">>, "ok"),
                       Event("deleteRequest", <<"a@x.com">>, "ok") >>
        /\ remote[Req1].parent = "ou-1"
        /\ mapping = mapping0[1]
        /\ store = <<>>
        /\ ret[1] = Returned(FALSE)
  /\ ( /\ Ended(1)
       /\ log[1] = << Event("scan", <<>>, "empty") >> )
     => ret[1] = Returned(TRUE)

\* C7 witness: the scenario has run: three invocations, the only Create call
\* ever made is req-1, it was stored, account 111 is in ou-1, no mapping row
\* exists, the table is empty and the third invocation returned IsComplete: true.
C7_Witness ==
  /\ nInv = 3
  /\ Complete(1)
  /\ DOMAIN remote = {Req1}
  /\ <<"stored", Req1>> \in hist
  /\ remote[Req1].parent = "ou-1"
  /\ ~remote[Req1].gov
  /\ mapping = <<>>
  /\ store = <<>>

\* C8: an invocation returns IsComplete: true exactly when its scan found no
\* row; such an invocation made no other call and left both tables as they
\* were; an invocation that deleted the last row returns IsComplete: false.
C8_CompleteOnlyOnEmptyStore ==
  \A p \in Procs :
    Ended(p) =>
      /\ Complete(p) <=> log[p][1].out = "empty"
      /\ log[p][1].out = "empty" <=> (log[p][1].out # "throw" /\ DOMAIN store0[p] = {})
      /\ Complete(p) => /\ Len(log[p]) = 1
                        /\ store = store0[p]
                        /\ mapping = mapping0[p]
      /\ (Calls(p, {"deleteRequest"}, {"ok"}) # {} /\ DOMAIN store = {})
           => ret[p] = Returned(FALSE)

\* C8 witness: an invocation has deleted the last row of the table and
\* returned IsComplete: false.
C8_Witness ==
  /\ Ended(1)
  /\ DOMAIN store0[1] # {}
  /\ DOMAIN store = {}
  /\ Calls(1, {"deleteRequest"}, {"ok"}) # {}
  /\ ret[1] = Returned(FALSE)

\* C9: within an invocation, every Describe-Status call is for the selected
\* email and for a request id a Create call for that email returned; every
\* move call comes after a Create or Describe-Status call that reported
\* SUCCEEDED and moves that request's account; every delete comes after an
\* answered move call and deletes the selected row.  Across invocations, an
\* account sits in an organizational unit only if its creation succeeded.
C9_PerKeyOrdering ==
  /\ \A rid \in DOMAIN remote :
       remote[rid].parent \notin {"none", RootId} => remote[rid].State = "SUCCEEDED"
  /\ \A p \in Procs : \A i \in 1..Len(log[p]) :
       LET ev == log[p][i]
       IN
       /\ ev.op = "describeCreateAccountStatus"
            => /\ ev.args[1] \in DOMAIN remote
               /\ Selected(p, ev.args[1][1])
       /\ ev.op = "moveAccount"
            => /\ \E j \in Calls(p, StatusOps, {"SUCCEEDED"}) : j < i
               /\ ev.args[1] = AccountId(status[p].Id)
               /\ Selected(p, status[p].Id[1])
       /\ ev.op = "deleteRequest"
            => /\ \E j \in Calls(p, {"moveAccount"}, {"ok", "failed"}) : j < i
               /\ Selected(p, ev.args[1])

\* C9 witness: an invocation has described a stored request, found it
\* SUCCEEDED, moved the account and deleted the row.
C9_Witness ==
  /\ Ended(1)
  /\ Calls(1, {"describeCreateAccountStatus"}, {"SUCCEEDED"}) # {}
  /\ Calls(1, {"moveAccount"}, {"ok"}) # {}
  /\ Calls(1, {"deleteRequest"}, {"ok"}) # {}

\* C10 (as claimed): when invocations may crash between any two steps and are
\* invoked again, no email ever gets a second Create call, and when the table
\* has been emptied every account created sits in its target unit.
C10_CrashReplaySafety ==
  /\ \A e \in Emails : CreateCount(e) <= 1
  /\ Complete(1) => \A rid \in DOMAIN remote : remote[rid].parent = OuOf(rid[1])

\* C11 (as claimed): a store write (the put of the request id, the put of the
\* mapping row, the delete of the request row) that throws or resolves with a
\* status other than 200 is the last call of its invocation, and the
\* invocation ends there with an error.
C11_PersistenceFailuresFatal ==
  \A p \in Procs :
    \A i \in Calls(p, WriteOps, {"failed", "throw"}) :
      /\ i = Len(log[p])
      /\ Ended(p)
      /\ ret[p].kind = "threw"

\* C12: the mapping table never holds two rows for one commericalAccountId,
\* also after the same mapping was put twice (the success step run again
\* after an invocation failed past the put); after a put that succeeded the
\* one row of that id carries the values that put wrote.
C12_IdempotentMappingWrite ==
  /\ \A i, j \in DOMAIN mapping :
       mapping[i].commericalAccountId = mapping[j].commericalAccountId => i = j
  /\ \A p \in Procs : \A i \in Calls(p, {"putMapping"}, {"ok"}) :
       LET item == log[p][i].args[1]
       IN \E k \in DOMAIN mapping :
            /\ mapping[k] = item
            /\ MappingRows(mapping, item.commericalAccountId) = {k}

\* C12 witness: an invocation has put, with success, the mapping of an account
\* whose row the table already held when the invocation started.
C12_Witness ==
  \E i \in Calls(1, {"putMapping"}, {"ok"}) :
    /\ MappingRows(mapping0[1], log[1][i].args[1].commericalAccountId) # {}
    /\ Cardinality(MappingRows(mapping, log[1][i].args[1].commericalAccountId)) = 1

\* C13: when no call fails, an email gets a second Create call only in a run
\* in which two invocations overlapped; with strictly serial invocations it
\* gets at most one.
C13_DoubleCreateOnlyWhenOverlapping ==
  Overlap \notin hist => \A e \in Emails : CreateCount(e) <= 1

\* C13 witness: two overlapping invocations both selected the same row, which
\* had no createRequestId, and each called Create for it: two Create calls
\* were answered for the one email.
C13_Witness ==
  \E e \in Emails :
    /\ Overlap \in hist
    /\ CreateCount(e) = 2
    /\ \A p \in Procs :
         /\ Selected(p, e)
         /\ NeedsCreate(store0[p][e])
         /\ Calls(p, CreateOps, {"IN_PROGRESS", "SUCCEEDED"}) # {}

\* The fatal conditions of an invocation: Create or Describe-Status reported a
\* state other than IN_PROGRESS and SUCCEEDED, the put of the request id was
\* refused, no root named 'Root' was listed, the move was refused.
FatalCondition(p) ==
  \/ Calls(p, StatusOps, States \ {"IN_PROGRESS", "SUCCEEDED"}) # {}
  \/ Calls(p, {"putRequest"}, {"failed"}) # {}
  \/ Calls(p, {"listRoots"}, {"no Root"}) # {}
  \/ Calls(p, {"moveAccount"}, {"failed"}) # {}

\* C14 (as claimed): an invocation in which a fatal condition occurred ends
\* with an error, never with a returned value, and the error names the email
\* of the row the invocation selected.
C14_FatalErrorsNameTheRequest ==
  \A p \in Procs :
    (Ended(p) /\ FatalCondition(p)) =>
      /\ ret[p].kind = "threw"
      /\ Selected(p, ret[p].email)

\* The creation request whose SUCCEEDED status invocation p saw in its second
\* call: the one Describe-Status was asked about, or the one Create just made.
SucceededRequest(p) ==
  IF log[p][2].op = "describeCreateAccountStatus"
    THEN log[p][2].args[1]
    ELSE RequestId(log[p][1].args[1], CreateCount(log[p][1].args[1]))

\* C15: an invocation makes at most one move call; the call comes right after
\* a list-roots call that found the root named 'Root', follows a Create or
\* Describe-Status call that reported SUCCEEDED, and names the account of that
\* request as the account, the id of the root named 'Root' as the source and
\* the organizationalUnitId of the selected row as the destination.
C15_PlacementArguments ==
  \A p \in Procs :
    /\ Cardinality(Called(p, {"moveAccount"})) <= 1
    /\ \A i \in Called(p, {"moveAccount"}) :
         /\ i >= 3
         /\ log[p][i - 1] = Event("listRoots", <<>>, "Root")
         /\ log[p][2].op \in StatusOps
         /\ log[p][2].out = "SUCCEEDED"
         /\ remote[SucceededRequest(p)].State = "SUCCEEDED"
         /\ Selected(p, SucceededRequest(p)[1])
         /\ log[p][i].args = << AccountId(SucceededRequest(p)),
                                RootId,
                                store0[p][SucceededRequest(p)[1]].organizationalUnitId >>

\* C15 witness: an invocation whose Create call reported SUCCEEDED has moved
\* the account of b@x.com from the root to ou-2.
C15_Witness ==
  /\ Calls(1, CreateOps, {"SUCCEEDED"}) # {}
  /\ Calls(1, {"moveAccount"}, {"ok"}) # {}
  /\ Selected(1, "b@x.com")
  /\ \E rid \in DOMAIN remote : rid[1] = "b@x.com" /\ remote[rid].parent = "ou-2"

\* C16: a put of the request id that throws or resolves with a status other
\* than 200 follows a Create call answered IN_PROGRESS and is the last call of
\* its invocation: the invocation ends there with an error, returns no value,
\* and leaves both tables as it found them.
C16_PutFailureFatal ==
  \A p \in Procs :
    \A i \in Calls(p, {"putRequest"}, {"failed", "throw"}) :
      /\ i = Len(log[p])
      /\ log[p][i - 1].op \in CreateOps
      /\ log[p][i - 1].out = "IN_PROGRESS"
      /\ Ended(p)
      /\ ret[p].kind = "threw"
      /\ store = store0[p]
      /\ mapping = mapping0[p]

\* C16 witness: an invocation has ended on a put of the request id that
\* resolved with a status other than 200, after Create answered IN_PROGRESS.
C16_Witness ==
  /\ Ended(1)
  /\ Calls(1, CreateOps, {"IN_PROGRESS"}) # {}
  /\ Calls(1, {"putRequest"}, {"failed"}) # {}
  /\ ret[1].kind = "threw"

\* C17: an invocation whose Describe-Status call reported IN_PROGRESS has
\* ended there returning IsComplete: false; it made no Create, list-roots or
\* move call and no store write, and both tables are as they were when the
\* invocation started.
C17_InProgressFrame ==
  \A p \in Procs :
    Calls(p, {"describeCreateAccountStatus"}, {"IN_PROGRESS"}) # {}
      => /\ Ended(p)
         /\ ret[p] = Returned(FALSE)
         /\ Len(log[p]) = 2
         /\ Called(p, CreateOps \cup WriteOps \cup {"listRoots", "moveAccount"}) = {}
         /\ store = store0[p]
         /\ mapping = mapping0[p]

\* C17 witness: an invocation has selected a row with a createRequestId, asked
\* for its status, been told IN_PROGRESS and returned, the row still stored.
C17_Witness ==
  \E e \in DOMAIN store :
    /\ Ended(1)
    /\ Selected(1, e)
    /\ HasRequestId(store[e])
    /\ LastEvent(1) = Event("describeCreateAccountStatus", <<store[e].createRequestId>>,
                            "IN_PROGRESS")

\* The fields of a stored row other than the createRequestId.
ConfigFields == {"name", "email", "enableGovCloud", "organizationalUnitId"}

\* C18: an invocation whose Create call was answered IN_PROGRESS and whose
\* put succeeded has ended returning IsComplete: false; the table has the
\* keys it had, the selected row carries the request id that Create call
\* returned and is otherwise as it was, and every other row is as it was.
C18_UpdateInPlace ==
  \A p \in Procs :
    (Calls(p, CreateOps, {"IN_PROGRESS"}) # {} /\ Calls(p, {"putRequest"}, {"ok"}) # {})
      => LET e == log[p][1].args[1]
         IN /\ Ended(p)
            /\ ret[p] = Returned(FALSE)
            /\ DOMAIN store = DOMAIN store0[p]
            /\ RequestIdOf(store[e]) = RequestId(e, CreateCount(e))
            /\ RequestIdOf(store[e]) = status[p].Id
            /\ remote[status[p].Id].email = e
            /\ DOMAIN store[e] = ConfigFields \cup {"createRequestId"}
            /\ \A f \in ConfigFields : store[e][f] = store0[p][e][f]
            /\ \A x \in DOMAIN store \ {e} : store[x] = store0[p][x]

\* C18 witness: with two rows stored, an invocation has submitted b@x.com,
\* whose row had no createRequestId field, and stored the id on it.
C18_Witness ==
  /\ Ended(1)
  /\ Selected(1, "b@x.com")
  /\ DOMAIN store = Emails
  /\ "createRequestId" \notin DOMAIN store0[1]["b@x.com"]
  /\ Calls(1, {"putRequest"}, {"ok"}) # {}
  /\ HasRequestId(store["b@x.com"])

\* The operations invocation p called, in order.
OpsOf(p) == [i \in 1..Len(log[p]) |-> log[p][i].op]

\* C19: an invocation calls at most one of Create and Describe-Status, once;
\* Describe-Status is called with the createRequestId of the row the
\* invocation selected, as it was stored; an invocation whose Create call
\* reported SUCCEEDED makes no Describe-Status call, and when it has returned
\* it has put the mapping (if the response had a GovCloudAccountId), listed
\* the roots, moved the account and deleted the row, in that order.
C19_SynchronousSuccess ==
  \A p \in Procs :
    /\ Cardinality(Called(p, StatusOps)) <= 1
    /\ \A i \in Called(p, {"describeCreateAccountStatus"}) :
         /\ HasRequestId(store0[p][log[p][1].args[1]])
         /\ log[p][i].args = << store0[p][log[p][1].args[1]].createRequestId >>
    /\ \A i \in Calls(p, CreateOps, {"SUCCEEDED"}) :
         /\ i = 2
         /\ Called(p, {"describeCreateAccountStatus", "putRequest"}) = {}
         /\ (Ended(p) /\ ret[p].kind = "returned") =>
              /\ ret[p] = Returned(FALSE)
              /\ OpsOf(p) =
                   IF "GovCloudAccountId" \in DOMAIN status[p]
                     THEN << "scan", log[p][2].op, "putMapping", "listRoots",
                             "moveAccount", "deleteRequest" >>
                     ELSE << "scan", log[p][2].op, "listRoots", "moveAccount",
                             "deleteRequest" >>

\* C19 witness: an invocation whose createGovCloudAccount call reported
\* SUCCEEDED has written the mapping, moved the account into its unit and
\* deleted the row, all in that invocation.
C19_Witness ==
  /\ Ended(1)
  /\ Calls(1, {"createGovCloudAccount"}, {"SUCCEEDED"}) # {}
  /\ Calls(1, {"putMapping"}, {"ok"}) # {}
  /\ Calls(1, {"moveAccount"}, {"ok"}) # {}
  /\ Calls(1, {"deleteRequest"}, {"ok"}) # {}
  /\ log[1][1].args[1] \notin DOMAIN store
  /\ remote[status[1].Id].parent = OuOf(log[1][1].args[1])
  /\ MappingRows(mapping, status[1].AccountId) # {}

\* Invocation p's Create or Describe-Status call reported SUCCEEDED.
SawSucceeded(p) ==
  /\ Len(log[p]) >= 2
  /\ log[p][2].op \in StatusOps
  /\ log[p][2].out = "SUCCEEDED"

\* C20: an invocation puts a mapping row exactly when its Create or
\* Describe-Status call reported SUCCEEDED with a GovCloudAccountId: the put
\* is then its next call, before the list-roots and move calls, and writes
\* the AccountId, GovCloudAccountId and AccountName of that response; an
\* invocation whose success response has no GovCloudAccountId, and any other
\* invocation, makes no mapping put and leaves the mapping table as it was.
C20_MappingIffSecondaryId ==
  \A p \in Procs :
    /\ \A i \in Called(p, {"putMapping"}) :
         /\ i = 3
         /\ SawSucceeded(p)
         /\ "GovCloudAccountId" \in DOMAIN status[p]
         /\ log[p][i].args = << [commericalAccountId |-> status[p].AccountId,
                                 govCloudAccountId |-> status[p].GovCloudAccountId,
                                 accountName |-> status[p].AccountName] >>
         /\ \A j \in Called(p, {"listRoots", "moveAccount"}) : j > i
    /\ (SawSucceeded(p) /\ "GovCloudAccountId" \in DOMAIN status[p] /\ Len(log[p]) >= 3)
         => log[p][3].op = "putMapping"
    /\ (SawSucceeded(p) /\ "GovCloudAccountId" \notin DOMAIN status[p])
         => Called(p, {"putMapping"}) = {}
    /\ (log[p] # <<>> /\ Called(p, {"putMapping"}) = {}) => mapping = mapping0[p]

\* C20 witness: an invocation whose status check reported SUCCEEDED with a
\* GovCloudAccountId has put the mapping row and then moved the account.
C20_Witness ==
  /\ Calls(1, {"describeCreateAccountStatus"}, {"SUCCEEDED"}) # {}
  /\ "GovCloudAccountId" \in DOMAIN status[1]
  /\ Calls(1, {"putMapping"}, {"ok"}) = {3}
  /\ Calls(1, {"moveAccount"}, {"ok"}) = {5}
  /\ mapping # mapping0[1]

\* C21 (as claimed): the mapping row of an account is written at most once:
\* an invocation that puts the mapping of an account with success did not
\* find a row for that account when it started; and no invocation removes a
\* mapping row.
C21_MappingWrittenOnce ==
  \A p \in Procs :
    /\ \A i \in Calls(p, {"putMapping"}, {"ok"}) :
         MappingRows(mapping0[p], log[p][i].args[1].commericalAccountId) = {}
    /\ log[p] # <<>> => Len(mapping) >= Len(mapping0[p])

\* C21 (amended): the mapping of an account may be put again by a later
\* invocation (after one that failed past the put), but the table keeps what
\* it held: every row an invocation found is still there, in its place and
\* with the values it had, and the invocation has added at most one row, for
\* an account that had none.
C21_MappingRowsKept ==
  \A p \in Procs :
    log[p] # <<>> =>
      /\ \A i \in DOMAIN mapping0[p] : i \in DOMAIN mapping /\ mapping[i] = mapping0[p][i]
      /\ Len(mapping) <= Len(mapping0[p]) + 1
      /\ \A i \in DOMAIN mapping \ DOMAIN mapping0[p] :
           MappingRows(mapping0[p], mapping[i].commericalAccountId) = {}

\* C21 witness: an invocation found the mapping row of the account it is
\* placing, put the mapping again, moved the account and deleted the request
\* row; the mapping table is what it was.
C21_Witness ==
  /\ Ended(1)
  /\ mapping0[1] # <<>>
  /\ mapping = mapping0[1]
  /\ Calls(1, {"putMapping"}, {"ok"}) # {}
  /\ Calls(1, {"moveAccount"}, {"ok"}) # {}
  /\ Calls(1, {"deleteRequest"}, {"ok"}) # {}

\* C22: an invocation that selected a row without createRequestId makes, as
\* its next call, one Create call: createGovCloudAccount exactly when the
\* row's enableGovCloud is 'true', createAccount otherwise, with the email and
\* the name of that row; it makes no other Create call, and an invocation
\* that selected a row with a createRequestId makes none.
C22_VariantSelection ==
  \A p \in Procs :
    /\ Cardinality(Called(p, CreateOps)) <= 1
    /\ \A i \in Called(p, CreateOps) :
         LET row == store0[p][log[p][1].args[1]]
         IN /\ i = 2
            /\ NeedsCreate(row)
            /\ log[p][i].op = "createGovCloudAccount" <=> row.enableGovCloud = "true"
            /\ log[p][i].op = "createAccount" <=> row.enableGovCloud # "true"
            /\ log[p][i].args = <<row.email, row.name>>
            /\ row.email = log[p][1].args[1]
    /\ (Len(log[p]) >= 2 /\ log[p][1].out = "item")
         => (log[p][2].op \in CreateOps <=> NeedsCreate(store0[p][log[p][1].args[1]]))

\* C22 witness: in one run the standard variant has been called for a row
\* whose flag is 'false' and the GovCloud variant for a row whose flag is
\* 'true'.
C22_Witness ==
  /\ Calls(1, {"createGovCloudAccount"}, States) # {}
  /\ store0[1][log[1][1].args[1]].enableGovCloud = "true"
  /\ \E rid \in DOMAIN remote : ~remote[rid].gov

\* The email a logged call was made for: the Email of a Create call, the email
\* the request id or the account id of the other remote calls was given for,
\* the key of a store write; list-roots is for no request in particular.
EmailOf(ev) ==
  CASE ev.op \in CreateOps \cup {"putRequest", "deleteRequest"} -> ev.args[1]
    [] ev.op = "describeCreateAccountStatus" -> ev.args[1][1]
    [] ev.op = "moveAccount" -> ev.args[1][2]
    [] ev.op = "putMapping" -> ev.args[1].commericalAccountId[2]

\* C23: an invocation scans once and selects at most one row; every Create,
\* Describe-Status and move call and every store write it makes is for the
\* email of that row; the request table has no key it did not have, and every
\* other row is stored as it was; an invocation that selected no row calls
\* nothing else and changes nothing.
C23_OneRequestPerInvocation ==
  \A p \in Procs :
    log[p] # <<>> =>
      /\ Called(p, {"scan"}) = {1}
      /\ DOMAIN store \subseteq DOMAIN store0[p]
      /\ IF log[p][1].out = "item"
           THEN LET e == log[p][1].args[1]
                IN /\ e \in DOMAIN store0[p]
                   /\ \A i \in 2..Len(log[p]) :
                        log[p][i].op # "listRoots" => EmailOf(log[p][i]) = e
                   /\ \A x \in DOMAIN store0[p] \ {e} :
                        x \in DOMAIN store /\ store[x] = store0[p][x]
           ELSE /\ Len(log[p]) = 1
                /\ store = store0[p]
                /\ mapping = mapping0[p]

\* C23 witness: with two rows stored, an invocation has placed the account of
\* one and deleted its row; the other row is stored as it was.
C23_Witness ==
  /\ Ended(1)
  /\ DOMAIN store0[1] = Emails
  /\ Calls(1, {"moveAccount"}, {"ok"}) # {}
  /\ Calls(1, {"deleteRequest"}, {"ok"}) # {}
  /\ Cardinality(DOMAIN store) = 1
  /\ \A x \in DOMAIN store : store[x] = store0[1][x]

\* C24: an invocation whose list-roots call listed no root named 'Root' has
\* ended there with an error: it made no move call and no delete, the request
\* table is as the invocation found it and the selected row is still stored.
C24_DefaultRootMissing ==
  \A p \in Procs :
    \A i \in Calls(p, {"listRoots"}, {"no Root"}) :
      /\ i = Len(log[p])
      /\ Ended(p)
      /\ ret[p].kind = "threw"
      /\ Called(p, {"moveAccount", "deleteRequest"}) = {}
      /\ store = store0[p]
      /\ log[p][1].args[1] \in DOMAIN store

\* C24 witness: an invocation that saw SUCCEEDED was answered a list of roots
\* without one named 'Root' and has ended with the TypeError, the row stored.
C24_Witness ==
  /\ Ended(1)
  /\ SawSucceeded(1)
  /\ LastEvent(1) = Event("listRoots", <<>>, "no Root")
  /\ rootOrg[1] = Undefined
  /\ ret[1] = Threw("TypeError", Undefined)
  /\ log[1][1].args[1] \in DOMAIN store

\* C25: the request table holds one row per email, stored under that email:
\* no two keys hold rows of the same email; and an invocation adds no row:
\* the table has no more rows, and no other keys, than the invocation found.
C25_KeyUniqueness ==
  /\ \A k \in DOMAIN store : store[k].email = k
  /\ \A k1, k2 \in DOMAIN store : store[k1].email = store[k2].email => k1 = k2
  /\ \A p \in Procs :
       log[p] # <<>> =>
         /\ Cardinality(DOMAIN store) <= Cardinality(DOMAIN store0[p])
         /\ DOMAIN store \subseteq DOMAIN store0[p]

\* C25 witness: of two rows stored, one has had its request id put on it by
\* an earlier invocation and has now been deleted; one row is left.
C25_Witness ==
  \E e \in Emails :
    /\ Ended(1)
    /\ DOMAIN store0[1] = Emails
    /\ HasRequestId(store0[1][e])
    /\ <<"stored", store0[1][e].createRequestId>> \in hist
    /\ LastEvent(1) = Event("deleteRequest", <<e>>, "ok")
    /\ DOMAIN store = Emails \ {e}

\* Every call the handler awaits.
AllOps == RemoteOps \cup WriteOps \cup {"scan"}

\* C26: a call that raised (scan, Create, Describe-Status, list-roots, move,
\* put or delete) is the last call of its invocation: the invocation has
\* ended with that error, returned no value, made no call and no store write
\* after it, and every call before it had been answered.
C26_RemoteErrorsPropagate ==
  \A p \in Procs :
    \A i \in Calls(p, AllOps, {"throw"}) :
      /\ i = Len(log[p])
      /\ Ended(p)
      /\ ret[p] = SdkError
      /\ \A j \in 1..(i - 1) : log[p][j].out # "throw"

\* C26 witness: the move call of an invocation raised, after the mapping had
\* been put; the invocation ended with the error and the row is still stored.
C26_Witness ==
  /\ Ended(1)
  /\ LastEvent(1).op = "moveAccount"
  /\ LastEvent(1).out = "throw"
  /\ Calls(1, {"putMapping"}, {"ok"}) # {}
  /\ ret[1] = SdkError
  /\ log[1][1].args[1] \in DOMAIN store

\* The stored rows whose creation request a status check has reported FAILED.
Blocked == { e \in DOMAIN store : <<"failed", RequestIdOf(store[e])>> \in hist }

\* C27: once a status check has reported FAILED for the request of a stored
\* row, that row stays stored as it is: no invocation changes or deletes it,
\* the table is never empty and no invocation returns IsComplete: true; an
\* invocation that selects the row makes the status check and nothing else,
\* and when the check is answered it is answered FAILED and the invocation
\* ends with the error naming the account.
C27_FailedRequestBlocks ==
  /\ \A e \in Emails :
       ( /\ e \in DOMAIN store
         /\ HasRequestId(store[e])
         /\ remote[store[e].createRequestId].State = "FAILED" ) => e \in Blocked
  /\ \A h \in hist :
       h[1] = "failed" => /\ h[2][1] \in Blocked
                          /\ store[h[2][1]].createRequestId = h[2]
                          /\ remote[h[2]].State = "FAILED"
  /\ \A p \in Procs : \A e \in Blocked :
       /\ ~Complete(p)
       /\ log[p] # <<>> => store[e] = store0[p][e]
       /\ Selected(p, e) =>
            /\ Len(log[p]) <= 2
            /\ Called(p, AllOps \ {"scan", "describeCreateAccountStatus"}) = {}
            /\ Calls(p, {"describeCreateAccountStatus"}, States \ {"FAILED"}) = {}
            /\ Ended(p) => ret[p].kind = "threw"
            /\ Calls(p, {"describeCreateAccountStatus"}, {"FAILED"}) # {}
                 => ret[p] = CouldNotCreate(e)

\* C27 witness: a later invocation has selected a row whose request had been
\* reported FAILED, been told FAILED again and ended with the same error; the
\* row is stored as it was.
C27_Witness ==
  \E e \in Blocked :
    /\ Ended(1)
    /\ Selected(1, e)
    /\ <<"failed again", store[e].createRequestId>> \in hist
    /\ ret[1] = CouldNotCreate(e)
    /\ store = store0[1]

====
